---- MODULE Spec2Model ----
(***************************************************************************)
(* Model of @itsezz/try-catch.                                             *)
(*                                                                         *)
(* Two modules of the repository are modelled:                             *)
(*   - the newer module (src/unnamed/part_002): success, failure,          *)
(*     isSuccess, isError, map, flatMap, tryCatch, tryCatchSync,           *)
(*     tryCatchAsync;                                                      *)
(*   - the extended module (src/src/index.ts): tryCatch with an error      *)
(*     handler and a cleanup callback (tryCatchExt here), and chain.       *)
(*                                                                         *)
(* JavaScript values are tagged records.  Objects carry the identity they  *)
(* were allocated with (id), so "the very same object" is distinguishable  *)
(* from "an equal copy".  Promises live in a table; their reactions run as *)
(* jobs of the host's microtask queue.                                     *)
(***************************************************************************)
EXTENDS Naturals, Sequences, FiniteSets, TLC

VARIABLES
    arg,        \* the caller's input: a function (with the promise it returns, if any) and the
                \* callbacks it passes to the extended tryCatch, or, for the combinators, a value
    promises,   \* promise table: id -> [state, value]
    reactions,  \* promise id -> reactions registered while it is pending
    microtasks, \* the host's microtask queue
    calls,      \* the wrapper calls made so far, with what each returned and what it invoked
    nextId,     \* next object identity
    cur,        \* combinators: the value the next combinator is applied to
    ops,        \* combinators: the latest application (none yet: empty)
    nOps        \* combinators: how many applications were made

vars == <<arg, promises, reactions, microtasks, calls, nextId, cur, ops, nOps>>

----------------------------------------------------------------------------
(* Bounds *)

MaxCalls == 2   \* wrapper calls per run
MaxOps == 2     \* combinator applications per run
MaxChain == 2   \* operations handed to one chain call

----------------------------------------------------------------------------
(* JavaScript values *)

Prim(x) == [t |-> "prim", v |-> x]
Undefined == Prim("undefined")
Null == Prim("null")
PromiseRef(p) == [t |-> "promise", pid |-> p]
Obj(id, fields) == [t |-> "obj", id |-> id, fields |-> fields]

IsPromise(x) == x.t = "promise"
IsObject(x) == x.t = "obj"
HasKey(x, k) == IsObject(x) /\ k \in DOMAIN x.fields

\* an Error instance created by the caller, before any object of the library
ErrObj == Obj(0, [message |-> Prim("boom")])

\* the values operations return or resolve to
DataValues == {Undefined, Null, Prim("a")}

\* the values operations throw or reject with
ErrorValues == {Undefined, Prim("a"), ErrObj}

\* what the caller's throwing callbacks throw
HandlerThrown == Prim("handler threw")
CleanupThrown == Prim("cleanup threw")

----------------------------------------------------------------------------
(* Constructors and discriminators *)

success_dropsNullish(data, id) ==
    IF data \in {Undefined, Null} THEN Obj(id, [error |-> data]) ELSE Obj(id, [data |-> data])

success(data, id) == Obj(id, [data |-> data])

failure_wraps(error, id) == Obj(id, [error |-> Obj(id + 100, [cause |-> error])])

failure(error, id) == Obj(id, [error |-> error])

isSuccess_definedData(result) ==
    "data" \in DOMAIN result.fields /\ result.fields.data # Undefined

isSuccess(result) == "data" \in DOMAIN result.fields

isError(result) == "error" \in DOMAIN result.fields

----------------------------------------------------------------------------
(* Promises.  A machine m is [promises, reactions, microtasks, nextId]. *)

Machine == [promises |-> promises, reactions |-> reactions,
            microtasks |-> microtasks, nextId |-> nextId]

Pending == [state |-> "pending", value |-> Undefined]

NewPromise(m) ==
    [m EXCEPT !.promises = Append(@, Pending), !.reactions = Append(@, <<>>)]

Alloc(m, n) == [m EXCEPT !.nextId = @ + n]

Reaction(type, c, target) == [type |-> type, call |-> c, target |-> target]

Job(r, st, v) == [r |-> r, st |-> st, v |-> v]

\* p.then / p.catch / p.finally / await p: the reaction waits while p is
\* pending and is queued as a job at once when p is already settled
Then(m, p, r) ==
    IF m.promises[p].state = "pending"
    THEN [m EXCEPT !.reactions[p] = Append(@, r)]
    ELSE [m EXCEPT !.microtasks = Append(@, Job(r, m.promises[p].state, m.promises[p].value))]

\* settling p queues a job for each waiting reaction, in registration order
Settle(m, p, st, v) ==
    [m EXCEPT !.promises[p] = [state |-> st, value |-> v],
              !.reactions[p] = <<>>,
              !.microtasks = @ \o [i \in 1..Len(m.reactions[p]) |-> Job(m.reactions[p][i], st, v)]]

----------------------------------------------------------------------------
(* What a call leaves for its caller *)

Returned(v) == [threw |-> FALSE, value |-> v]
Threw(x) == [threw |-> TRUE, value |-> x]

Ev(e, args) == [e |-> e, args |-> args]
FnEv == Ev("fn", <<>>)
HandlerEv(x) == Ev("handler", <<x>>)
CleanupEv == Ev("cleanup", <<>>)

Out(m, ret, log) == [m |-> m, ret |-> ret, log |-> log]

\* invoking the caller's function: fn()
Invoke(a) == [threw |-> a.does = "throw", value |-> a.value]

----------------------------------------------------------------------------
(* Execution wrappers of the newer module *)

\* p.then((data) => success(data)).catch((error) => failure(error))
ThenCatch(m, p, c, log) ==
    LET q1 == Len(m.promises) + 1
        q2 == q1 + 1
        m1 == NewPromise(NewPromise(m))
        m2 == Then(m1, p, Reaction("then", c, q1))
        m3 == Then(m2, q1, Reaction("catch", c, q2))
    IN  Out(m3, Returned(PromiseRef(q2)), log)

tryCatchSync_followsPromise(a, m) ==
    LET r == Invoke(a) IN
    IF r.threw
    THEN Out(Alloc(m, 1), Returned(failure(r.value, m.nextId)), <<FnEv>>)
    ELSE IF IsPromise(r.value)
    THEN ThenCatch(m, r.value.pid, Len(calls) + 1, <<FnEv>>)
    ELSE Out(Alloc(m, 1), Returned(success(r.value, m.nextId)), <<FnEv>>)

\* try { return success(fn()) } catch (error) { return failure(error) }
tryCatchSync(a, m) ==
    LET r == Invoke(a) IN
    IF r.threw
    THEN Out(Alloc(m, 1), Returned(failure(r.value, m.nextId)), <<FnEv>>)
    ELSE Out(Alloc(m, 1), Returned(success(r.value, m.nextId)), <<FnEv>>)

\* fn() instanceof Promise ? fn().then(...) : ...
tryCatch_invokesTwice(a, m, c) ==
    IF a.kind = "fn"
    THEN LET r == Invoke(a) IN
         IF r.threw
         THEN Out(Alloc(m, 1), Returned(failure(r.value, m.nextId)), <<FnEv>>)
         ELSE IF IsPromise(r.value)
         THEN ThenCatch(m, r.value.pid, c, <<FnEv, FnEv>>)
         ELSE Out(Alloc(m, 1), Returned(success(r.value, m.nextId)), <<FnEv, FnEv>>)
    ELSE ThenCatch(m, a.value.pid, c, <<>>)

tryCatch_alwaysDeferred(a, m, c) ==
    IF a.kind = "fn"
    THEN LET r == Invoke(a)
             q == Len(m.promises) + 1
         IN  IF r.threw
             THEN Out(Settle(Alloc(NewPromise(m), 1), q, "fulfilled", failure(r.value, m.nextId)),
                      Returned(PromiseRef(q)), <<FnEv>>)
             ELSE IF IsPromise(r.value)
             THEN ThenCatch(m, r.value.pid, c, <<FnEv>>)
             ELSE Out(Settle(Alloc(NewPromise(m), 1), q, "fulfilled", success(r.value, m.nextId)),
                      Returned(PromiseRef(q)), <<FnEv>>)
    ELSE ThenCatch(m, a.value.pid, c, <<>>)

tryCatch(a, m, c) ==
    IF a.kind = "fn"
    THEN LET r == Invoke(a) IN
         IF r.threw
         THEN Out(Alloc(m, 1), Returned(failure(r.value, m.nextId)), <<FnEv>>)
         ELSE IF IsPromise(r.value)
         THEN ThenCatch(m, r.value.pid, c, <<FnEv>>)
         ELSE Out(Alloc(m, 1), Returned(success(r.value, m.nextId)), <<FnEv>>)
    ELSE ThenCatch(m, a.value.pid, c, <<>>)

\* await x inside the async function: the continuation is a reaction on x
\* when x is a promise, and a job of its own when x is a plain value
Await(m, x, c, target) ==
    IF IsPromise(x)
    THEN Then(m, x.pid, Reaction("await", c, target))
    ELSE [m EXCEPT !.microtasks = Append(@, Job(Reaction("await", c, target), "fulfilled", x))]

tryCatchAsync_syncDispatch(a, m, c) ==
    LET q == Len(m.promises) + 1
        m1 == NewPromise(m)
    IN  IF a.kind = "fn"
        THEN LET r == Invoke(a) IN
             IF r.threw
             THEN Out(Alloc(m, 1), Returned(failure(r.value, m.nextId)), <<FnEv>>)
             ELSE IF IsPromise(r.value)
             THEN Out(Await(m1, r.value, c, q), Returned(PromiseRef(q)), <<FnEv>>)
             ELSE Out(Alloc(m, 1), Returned(success(r.value, m.nextId)), <<FnEv>>)
        ELSE Out(Await(m1, a.value, c, q), Returned(PromiseRef(q)), <<>>)

tryCatchAsync_missingAwait(a, m, c) ==
    LET q == Len(m.promises) + 1
        m1 == NewPromise(m)
    IN  IF a.kind = "fn"
        THEN LET r == Invoke(a) IN
             IF r.threw
             THEN Out(Settle(Alloc(m1, 1), q, "fulfilled", failure(r.value, m.nextId)),
                      Returned(PromiseRef(q)), <<FnEv>>)
             ELSE Out(Settle(Alloc(m1, 1), q, "fulfilled", success(r.value, m.nextId)),
                      Returned(PromiseRef(q)), <<FnEv>>)
        ELSE Out(Settle(Alloc(m1, 1), q, "fulfilled", success(a.value, m.nextId)),
                 Returned(PromiseRef(q)), <<>>)

\* an async function: its promise q exists from the call on; a throw before
\* the first await is caught by the body's catch and fulfils q with a Failure
tryCatchAsync(a, m, c) ==
    LET q == Len(m.promises) + 1
        m1 == NewPromise(m)
    IN  IF a.kind = "fn"
        THEN LET r == Invoke(a) IN
             IF r.threw
             THEN Out(Settle(Alloc(m1, 1), q, "fulfilled", failure(r.value, m.nextId)),
                      Returned(PromiseRef(q)), <<FnEv>>)
             ELSE Out(Await(m1, r.value, c, q), Returned(PromiseRef(q)), <<FnEv>>)
        ELSE Out(Await(m1, a.value, c, q), Returned(PromiseRef(q)), <<>>)

----------------------------------------------------------------------------
(* The extended tryCatch(arg, handler, cleanup) of src/src/index.ts *)

Handlers == {"none", "throw", "callback", "throwingCallback"}
Cleanups == {"none", "callback", "throwingCallback"}

\* cleanup?.() : the events it adds, and whether it threw
CleanupLog(cleanup) == IF cleanup = "none" THEN <<>> ELSE <<CleanupEv>>

\* the catch block of the synchronous path, entered with the caught error
\* and the events logged so far
SyncCatch(m, error, handler, cleanup, log) ==
    IF handler = "throw" THEN Out(m, Threw(error), log)
    ELSE LET log1 == IF handler = "none" THEN log ELSE Append(log, HandlerEv(error))
         IN  IF handler = "throwingCallback" THEN Out(m, Threw(HandlerThrown), log1)
             ELSE IF cleanup = "throwingCallback"
                  THEN Out(m, Threw(CleanupThrown), log1 \o CleanupLog(cleanup))
                  ELSE Out(Alloc(m, 1), Returned(Obj(m.nextId, [error |-> error])),
                           log1 \o CleanupLog(cleanup))

\* p.then(...).finally(cleanup).catch(...)
ThenCatchFinally_finallyFirst(m, p, c, log) ==
    LET q1 == Len(m.promises) + 1
        q2 == q1 + 1
        q3 == q2 + 1
        m1 == NewPromise(NewPromise(NewPromise(m)))
        m2 == Then(m1, p, Reaction("then", c, q1))
        m3 == Then(m2, q1, Reaction("finally", c, q2))
        m4 == Then(m3, q2, Reaction("catch", c, q3))
    IN  Out(m4, Returned(PromiseRef(q3)), log)

\* p.then(...).catch(...).finally(cleanup)
ThenCatchFinally(m, p, c, log) ==
    LET q1 == Len(m.promises) + 1
        q2 == q1 + 1
        q3 == q2 + 1
        m1 == NewPromise(NewPromise(NewPromise(m)))
        m2 == Then(m1, p, Reaction("then", c, q1))
        m3 == Then(m2, q1, Reaction("catch", c, q2))
        m4 == Then(m3, q2, Reaction("finally", c, q3))
    IN  Out(m4, Returned(PromiseRef(q3)), log)

tryCatchExt(a, handler, cleanup, m, c) ==
    IF a.kind = "fn"
    THEN LET r == Invoke(a) IN
         IF r.threw
         THEN SyncCatch(m, r.value, handler, cleanup, <<FnEv>>)
         ELSE IF IsPromise(r.value)
         THEN ThenCatchFinally(m, r.value.pid, c, <<FnEv>>)
         ELSE \* successResponse is built, then cleanup?.() runs inside the try
              IF cleanup = "throwingCallback"
              THEN SyncCatch(Alloc(m, 1), CleanupThrown, handler, cleanup, <<FnEv, CleanupEv>>)
              ELSE Out(Alloc(m, 1), Returned(Obj(m.nextId, [data |-> r.value])),
                       <<FnEv>> \o CleanupLog(cleanup))
    ELSE ThenCatchFinally(m, a.value.pid, c, <<>>)

----------------------------------------------------------------------------
(* Promise reactions: what each queued job does when the host runs it.    *)
(* Each yields the new machine and the callbacks it invoked.              *)

React(m, log) == [m |-> m, log |-> log]

OnThen_passesData(m, job) ==
    React(Settle(m, job.r.target, job.st, job.v), <<>>)

\* .then((data) => success(data)) / .then((data) => ({ data })): a rejection
\* passes through to the derived promise
OnThen(m, job) ==
    IF job.st = "fulfilled"
    THEN React(Settle(Alloc(m, 1), job.r.target, "fulfilled", success(job.v, m.nextId)), <<>>)
    ELSE React(Settle(m, job.r.target, "rejected", job.v), <<>>)

\* .catch(...): a fulfilment passes through; a rejection runs the callback
OnCatch_neverRethrows(m, job, call) ==
    IF job.st = "fulfilled"
    THEN React(Settle(m, job.r.target, "fulfilled", job.v), <<>>)
    ELSE IF call.handler = "throwingCallback"
    THEN React(Settle(m, job.r.target, "rejected", HandlerThrown), <<HandlerEv(job.v)>>)
    ELSE React(Settle(Alloc(m, 1), job.r.target, "fulfilled", Obj(m.nextId, [error |-> job.v])),
               IF call.handler = "callback" THEN <<HandlerEv(job.v)>> ELSE <<>>)

OnCatch(m, job, call) ==
    IF job.st = "fulfilled"
    THEN React(Settle(m, job.r.target, "fulfilled", job.v), <<>>)
    ELSE IF call.wrapper = "tryCatch"
    THEN React(Settle(Alloc(m, 1), job.r.target, "fulfilled", failure(job.v, m.nextId)), <<>>)
    ELSE IF call.handler = "throw"
    THEN React(Settle(m, job.r.target, "rejected", job.v), <<>>)
    ELSE IF call.handler = "throwingCallback"
    THEN React(Settle(m, job.r.target, "rejected", HandlerThrown), <<HandlerEv(job.v)>>)
    ELSE React(Settle(Alloc(m, 1), job.r.target, "fulfilled", Obj(m.nextId, [error |-> job.v])),
               IF call.handler = "none" THEN <<>> ELSE <<HandlerEv(job.v)>>)

\* .then(() => cleanup?.()) in place of .finally(cleanup)
OnFinally_dropsValue(m, job, call) ==
    IF call.cleanup = "throwingCallback"
    THEN React(Settle(m, job.r.target, "rejected", CleanupThrown), <<CleanupEv>>)
    ELSE IF job.st = "fulfilled"
    THEN React(Settle(m, job.r.target, "fulfilled", Undefined), CleanupLog(call.cleanup))
    ELSE React(Settle(m, job.r.target, job.st, job.v), <<>>)

\* .finally(cleanup): the derived promise takes over the settlement unless
\* cleanup throws; finally(undefined) only passes the settlement on.  The
\* further jobs the host spends on handing the settlement over are taken
\* in this one.
OnFinally(m, job, call) ==
    IF call.cleanup = "throwingCallback"
    THEN React(Settle(m, job.r.target, "rejected", CleanupThrown), <<CleanupEv>>)
    ELSE React(Settle(m, job.r.target, job.st, job.v), CleanupLog(call.cleanup))

OnAwait_propagatesRejection(m, job) ==
    IF job.st = "fulfilled"
    THEN React(Settle(Alloc(m, 1), job.r.target, "fulfilled", success(job.v, m.nextId)), <<>>)
    ELSE React(Settle(m, job.r.target, "rejected", job.v), <<>>)

\* the rest of tryCatchAsync after its await: return success(data), or the
\* catch block's return failure(error); either fulfils the async function's
\* promise
OnAwait(m, job) ==
    IF job.st = "fulfilled"
    THEN React(Settle(Alloc(m, 1), job.r.target, "fulfilled", success(job.v, m.nextId)), <<>>)
    ELSE React(Settle(Alloc(m, 1), job.r.target, "fulfilled", failure(job.v, m.nextId)), <<>>)

RunJob(m, job, call) ==
    CASE job.r.type = "then" -> OnThen(m, job)
      [] job.r.type = "catch" -> OnCatch(m, job, call)
      [] job.r.type = "finally" -> OnFinally(m, job, call)
      [] job.r.type = "await" -> OnAwait(m, job)

----------------------------------------------------------------------------
(* Combinators.  The caller's callbacks are drawn from small named sets;   *)
(* a combinator yields [threw, value, invoked], invoked listing the        *)
(* callbacks it called (position among its callbacks, argument).           *)

\* callbacks data -> value
MapFns == {"identity", "toNull", "toB", "throws"}

\* callbacks data -> Result
ResultFns == {"ok", "fail", "throws"}

CallbackThrown == Prim("callback threw")

ApplyFn(f, v) ==
    CASE f = "identity" -> Returned(v)
      [] f = "toNull" -> Returned(Null)
      [] f = "toB" -> Returned(Prim("b"))
      [] f = "throws" -> Threw(CallbackThrown)

\* a callback that builds its Result with success / failure, at identity id
ApplyResultFn(f, v, id) ==
    CASE f = "ok" -> Returned(success(v, id))
      [] f = "fail" -> Returned(failure(Prim("e"), id))
      [] f = "throws" -> Threw(CallbackThrown)

Done(threw, value, invoked) == [threw |-> threw, value |-> value, invoked |-> invoked]

Inv(k, x) == [k |-> k, arg |-> x]

\* reading a property an object does not own yields undefined
Get(x, k) == IF k \in DOMAIN x.fields THEN x.fields[k] ELSE Undefined

map_catchesThrow(result, fn, id) ==
    IF isSuccess(result)
    THEN LET r == ApplyFn(fn, result.fields.data) IN
         IF r.threw THEN Done(FALSE, failure(r.value, id), <<Inv(1, result.fields.data)>>)
         ELSE Done(FALSE, success(r.value, id), <<Inv(1, result.fields.data)>>)
    ELSE Done(FALSE, result, <<>>)

\* result.data = fn(result.data); return result
map_inPlace(result, fn, id) ==
    IF isSuccess(result)
    THEN LET r == ApplyFn(fn, result.fields.data) IN
         IF r.threw THEN Done(TRUE, r.value, <<Inv(1, result.fields.data)>>)
         ELSE Done(FALSE, Obj(result.id, [data |-> r.value]), <<Inv(1, result.fields.data)>>)
    ELSE Done(FALSE, result, <<>>)

map_rewrapsFailure(result, fn, id) ==
    IF isSuccess(result)
    THEN LET r == ApplyFn(fn, result.fields.data) IN
         IF r.threw THEN Done(TRUE, r.value, <<Inv(1, result.fields.data)>>)
         ELSE Done(FALSE, success(r.value, id), <<Inv(1, result.fields.data)>>)
    ELSE Done(FALSE, failure(result.fields.error, id), <<>>)

\* isSuccess(result) ? success(fn(result.data)) : result
map(result, fn, id) ==
    IF isSuccess(result)
    THEN LET r == ApplyFn(fn, result.fields.data) IN
         IF r.threw THEN Done(TRUE, r.value, <<Inv(1, result.fields.data)>>)
         ELSE Done(FALSE, success(r.value, id), <<Inv(1, result.fields.data)>>)
    ELSE Done(FALSE, result, <<>>)

flatMap_wrapsAgain(result, fn, id) ==
    IF isSuccess(result)
    THEN LET r == ApplyResultFn(fn, result.fields.data, id) IN
         IF r.threw THEN Done(TRUE, r.value, <<Inv(1, result.fields.data)>>)
         ELSE Done(FALSE, success(r.value, id + 1), <<Inv(1, result.fields.data)>>)
    ELSE Done(FALSE, result, <<>>)

\* isSuccess(result) ? fn(result.data) : result
flatMap(result, fn, id) ==
    IF isSuccess(result)
    THEN LET r == ApplyResultFn(fn, result.fields.data, id) IN
         Done(r.threw, r.value, <<Inv(1, result.fields.data)>>)
    ELSE Done(FALSE, result, <<>>)

unwrapOr_nullishDefault(result, defaultValue) ==
    IF isSuccess(result) /\ result.fields.data \notin {Undefined, Null}
    THEN Done(FALSE, result.fields.data, <<>>)
    ELSE Done(FALSE, defaultValue, <<>>)

\* isSuccess(result) ? result.data : defaultValue
unwrapOr(result, defaultValue) ==
    IF isSuccess(result) THEN Done(FALSE, result.fields.data, <<>>)
    ELSE Done(FALSE, defaultValue, <<>>)

unwrapOrElse_eager(result, fn) ==
    LET r == ApplyFn(fn, Get(result, "error")) IN
    IF isSuccess(result) THEN Done(FALSE, result.fields.data, <<Inv(1, Get(result, "error"))>>)
    ELSE Done(r.threw, r.value, <<Inv(1, result.fields.error)>>)

\* isSuccess(result) ? result.data : fn(result.error)
unwrapOrElse(result, fn) ==
    IF isSuccess(result) THEN Done(FALSE, result.fields.data, <<>>)
    ELSE LET r == ApplyFn(fn, result.fields.error) IN
         Done(r.threw, r.value, <<Inv(1, result.fields.error)>>)

match_swapsHandlers(result, handlers) ==
    IF isSuccess(result)
    THEN LET r == ApplyFn(handlers[2], result.fields.data) IN
         Done(r.threw, r.value, <<Inv(2, result.fields.data)>>)
    ELSE LET r == ApplyFn(handlers[1], result.fields.error) IN
         Done(r.threw, r.value, <<Inv(1, result.fields.error)>>)

\* isSuccess(result) ? handlers.success(result.data) : handlers.failure(result.error)
\* handlers is <<success handler, failure handler>>
match(result, handlers) ==
    IF isSuccess(result)
    THEN LET r == ApplyFn(handlers[1], result.fields.data) IN
         Done(r.threw, r.value, <<Inv(1, result.fields.data)>>)
    ELSE LET r == ApplyFn(handlers[2], result.fields.error) IN
         Done(r.threw, r.value, <<Inv(2, result.fields.error)>>)

\* the for loop of chain, from operation k on
RECURSIVE ChainLoop_runsAll(_, _, _, _, _)
ChainLoop_runsAll(current, operations, k, id, invoked) ==
    IF k > Len(operations) THEN Done(FALSE, current, invoked)
    ELSE LET x == Get(current, "data")
             r == ApplyResultFn(operations[k], x, id + k)
         IN  IF r.threw THEN Done(TRUE, r.value, Append(invoked, Inv(k, x)))
             ELSE ChainLoop_runsAll(r.value, operations, k + 1, id, Append(invoked, Inv(k, x)))

RECURSIVE ChainLoop(_, _, _, _, _)
ChainLoop(current, operations, k, id, invoked) ==
    IF k > Len(operations) THEN Done(FALSE, current, invoked)
    ELSE IF isError(current) THEN Done(FALSE, current, invoked)
    ELSE LET x == Get(current, "data")
             r == ApplyResultFn(operations[k], x, id + k)
         IN  IF r.threw THEN Done(TRUE, r.value, Append(invoked, Inv(k, x)))
             ELSE ChainLoop(r.value, operations, k + 1, id, Append(invoked, Inv(k, x)))

\* typeof input === 'object' && input !== null && ('data' in input || 'error' in input)
LooksLikeResult(input) == HasKey(input, "data") \/ HasKey(input, "error")

\* let current = success(input), whatever the input
chain_alwaysWraps(input, operations, id) ==
    ChainLoop(Obj(id, [data |-> input]), operations, 1, id, <<>>)

chain(input, operations, id) ==
    LET current == IF LooksLikeResult(input) THEN input ELSE Obj(id, [data |-> input])
    IN  ChainLoop(current, operations, 1, id, <<>>)

----------------------------------------------------------------------------
(* Inputs *)

Operations ==
    {[does |-> "return", value |-> v] : v \in DataValues \cup {PromiseRef(1)}}
    \cup {[does |-> "throw", value |-> x] : x \in ErrorValues}

FnArgs ==
    {[kind |-> "fn", does |-> o.does, value |-> o.value, handler |-> h, cleanup |-> cl] :
        o \in Operations, h \in Handlers, cl \in Cleanups}

\* what a wrapper can be handed: the function itself or, when the function
\* is () => p for a promise p of the caller, also p
Views(a) ==
    IF a.kind = "fn" /\ IsPromise(a.value)
    THEN {a, [a EXCEPT !.kind = "promise", !.does = "none"]}
    ELSE {a}

\* objects the caller built itself: a record shaped like an API response
\* with both keys, and literals { data: 'a' } and { error: 'e' }
RawObjects ==
    {Obj(1, [data |-> Prim("a"), error |-> Null]),
     Obj(2, [data |-> Prim("a")]),
     Obj(3, [error |-> Prim("e")])}

\* what the caller hands to the combinators
ValueArgs ==
    {[kind |-> "value", does |-> "none", value |-> v, handler |-> "none", cleanup |-> "none"] :
        v \in DataValues \cup ErrorValues \cup RawObjects}

UsesPromise(a) == IsPromise(a.value)

\* a value of type Result<T, E>: an object owning exactly one of the two keys
WellFormed(r) == IsObject(r) /\ (isSuccess(r) # isError(r))

\* sequences of at most n elements of S
RECURSIVE SeqsUpTo(_, _)
SeqsUpTo(S, n) ==
    IF n = 0 THEN {<<>>}
    ELSE LET shorter == SeqsUpTo(S, n - 1) IN
         shorter \cup {Append(q, x) : q \in shorter, x \in S}

Settled ==
    {[state |-> "fulfilled", value |-> v] : v \in DataValues}
    \cup {[state |-> "rejected", value |-> x] : x \in ErrorValues}

----------------------------------------------------------------------------
(* Actions *)

SetMachine(m) ==
    /\ promises' = m.promises
    /\ reactions' = m.reactions
    /\ microtasks' = m.microtasks
    /\ nextId' = m.nextId

\* the state the underlying promise is in when the call is made
StateAtCall(a) == IF IsPromise(a.value) THEN promises[a.value.pid].state ELSE "none"

Commit(o, w, a, h, cl) ==
    /\ SetMachine(o.m)
    /\ calls' = Append(calls, [wrapper |-> w, arg |-> a, handler |-> h, cleanup |-> cl,
                               at |-> StateAtCall(a), ret |-> o.ret, log |-> o.log])
    /\ UNCHANGED <<arg, cur, ops, nOps>>

CanCall == arg.kind = "fn" /\ Len(calls) < MaxCalls

\* tryCatchSync takes a function only
CallTryCatchSync ==
    /\ CanCall
    /\ Commit(tryCatchSync(arg, Machine), "tryCatchSync", arg, "none", "none")

CallTryCatch ==
    /\ CanCall
    /\ \E a \in Views(arg) :
          Commit(tryCatch(a, Machine, Len(calls) + 1), "tryCatch", a, "none", "none")

CallTryCatchAsync ==
    /\ CanCall
    /\ \E a \in Views(arg) :
          Commit(tryCatchAsync(a, Machine, Len(calls) + 1), "tryCatchAsync", a, "none", "none")

CallTryCatchExt ==
    /\ CanCall
    /\ \E a \in Views(arg) :
          Commit(tryCatchExt(a, a.handler, a.cleanup, Machine, Len(calls) + 1),
                 "tryCatchExt", a, a.handler, a.cleanup)

\* the underlying operation settles: its promise resolves or rejects
SettleUnderlying ==
    /\ arg.kind = "fn"
    /\ UsesPromise(arg)
    /\ promises[1].state = "pending"
    /\ \E s \in Settled : SetMachine(Settle(Machine, 1, s.state, s.value))
    /\ UNCHANGED <<arg, calls, cur, ops, nOps>>

\* the host runs the oldest job of the microtask queue
RunMicrotask ==
    /\ microtasks # <<>>
    /\ LET job == Head(microtasks)
           c == job.r.call
           o == RunJob([Machine EXCEPT !.microtasks = Tail(microtasks)], job, calls[c])
       IN  /\ SetMachine(o.m)
           /\ calls' = [calls EXCEPT ![c].log = @ \o o.log]
    /\ UNCHANGED <<arg, cur, ops, nOps>>

\* a combinator application is recorded; its result, when it is a Result the
\* combinator returned, becomes the value the next one is applied to
Apply(op, fns, extra, d, chained) ==
    /\ ops' = <<[op |-> op, input |-> cur, fns |-> fns, extra |-> extra,
                 threw |-> d.threw, out |-> d.value, invoked |-> d.invoked]>>
    /\ nOps' = nOps + 1
    /\ cur' = IF chained /\ ~d.threw THEN d.value ELSE cur
    /\ nextId' = nextId + MaxChain + 2
    /\ UNCHANGED <<arg, promises, reactions, microtasks, calls>>

CanApply == arg.kind = "value" /\ nOps < MaxOps

DoSuccess ==
    /\ CanApply
    /\ \E v \in DataValues : Apply("success", <<>>, v, Done(FALSE, success(v, nextId), <<>>), TRUE)

DoFailure ==
    /\ CanApply
    /\ \E e \in ErrorValues : Apply("failure", <<>>, e, Done(FALSE, failure(e, nextId), <<>>), TRUE)

DoMap ==
    /\ CanApply
    /\ WellFormed(cur)
    /\ \E f \in MapFns : Apply("map", <<f>>, Undefined, map(cur, f, nextId), TRUE)

DoFlatMap ==
    /\ CanApply
    /\ WellFormed(cur)
    /\ \E f \in ResultFns : Apply("flatMap", <<f>>, Undefined, flatMap(cur, f, nextId), TRUE)

DoUnwrapOr ==
    /\ CanApply
    /\ WellFormed(cur)
    /\ \E d \in DataValues : Apply("unwrapOr", <<>>, d, unwrapOr(cur, d), FALSE)

DoUnwrapOrElse ==
    /\ CanApply
    /\ WellFormed(cur)
    /\ \E f \in MapFns : Apply("unwrapOrElse", <<f>>, Undefined, unwrapOrElse(cur, f), FALSE)

DoMatch ==
    /\ CanApply
    /\ WellFormed(cur)
    /\ \E fs \in MapFns, ff \in MapFns :
          Apply("match", <<fs, ff>>, Undefined, match(cur, <<fs, ff>>), FALSE)

\* chain takes a raw value or a Result
DoChain ==
    /\ CanApply
    /\ \E operations \in SeqsUpTo(ResultFns, MaxChain) :
          Apply("chain", operations, Undefined, chain(cur, operations, nextId), TRUE)

Init ==
    /\ arg \in FnArgs \cup ValueArgs
    /\ promises \in (IF arg.kind = "fn" /\ UsesPromise(arg) THEN {<<s>> : s \in Settled \cup {Pending}} ELSE {<<>>})
    /\ reactions = [i \in 1..Len(promises) |-> <<>>]
    /\ microtasks = <<>>
    /\ calls = <<>>
    /\ nextId = 10
    /\ cur = arg.value
    /\ ops = <<>>
    /\ nOps = 0

Next ==
    \/ CallTryCatchSync
    \/ CallTryCatch
    \/ CallTryCatchAsync
    \/ CallTryCatchExt
    \/ SettleUnderlying
    \/ RunMicrotask
    \/ DoSuccess
    \/ DoFailure
    \/ DoMap
    \/ DoFlatMap
    \/ DoUnwrapOr
    \/ DoUnwrapOrElse
    \/ DoMatch
    \/ DoChain

Spec == Init /\ [][Next]_vars

\* the program handed a deferred operation alone (no handler, no cleanup):
\* a promise of the caller, or a function returning it; the combinators have
\* nothing to act on there
DeferredInit ==
    /\ Init
    /\ arg.kind = "fn" /\ UsesPromise(arg)
    /\ arg.handler = "none" /\ arg.cleanup = "none"

DeferredNext ==
    \/ CallTryCatchSync
    \/ CallTryCatch
    \/ CallTryCatchAsync
    \/ CallTryCatchExt
    \/ SettleUnderlying
    \/ RunMicrotask

\* the host drains the microtask queue: a queued job is eventually run
LiveSpec == DeferredInit /\ [][DeferredNext]_vars /\ WF_vars(RunMicrotask)

----------------------------------------------------------------------------
(* Vocabulary of the properties *)

CallIds == 1..Len(calls)
OpIds == 1..Len(ops)

ReturnedPromise(c) == ~c.ret.threw /\ IsPromise(c.ret.value)
ReturnedPlain(c) == ~c.ret.threw /\ IsObject(c.ret.value)

\* the promise a call returned
ResultPromise(c) == promises[c.ret.value.pid]

IsSuccessOf(r, v) == IsObject(r) /\ isSuccess(r) /\ ~isError(r) /\ r.fields.data = v
IsFailureOf(r, e) == IsObject(r) /\ isError(r) /\ ~isSuccess(r) /\ r.fields.error = e

\* equal as Results: same keys, same values (the objects may be distinct)
SameResult(r1, r2) == IsObject(r1) /\ IsObject(r2) /\ r1.fields = r2.fields

ReturnsValue(a) == a.kind = "fn" /\ a.does = "return" /\ ~IsPromise(a.value)
ThrowsValue(a) == a.kind = "fn" /\ a.does = "throw"
Deferred(a) == IsPromise(a.value)

\* the promise of the underlying operation
Underlying == promises[1]

\* tryCatch called with the operation alone, in either module
PlainTryCatch(c) ==
    \/ c.wrapper = "tryCatch"
    \/ c.wrapper = "tryCatchExt" /\ c.handler = "none" /\ c.cleanup = "none"

Quiet == microtasks = <<>>

\* the calls of one callback a call has made so far, in order
Invocations(c, e) == SelectSeq(c.log, LAMBDA x : x.e = e)

\* the call is over for its caller: it returned a plain value, threw, or the
\* promise it returned has settled
Completed(c) ==
    \/ c.ret.threw
    \/ ReturnedPlain(c)
    \/ ReturnedPromise(c) /\ ResultPromise(c).state # "pending"

\* the operation's error has reached the caller of the call
ErrorReachedCaller(c) ==
    \/ c.ret.threw
    \/ ReturnedPromise(c) /\ ResultPromise(c).state = "rejected"

----------------------------------------------------------------------------
(* Properties *)

\* C1: when fn returns normally with v (null and undefined included, and a
\* promise taken as a value), tryCatchSync(fn) returns a Success whose data
\* is exactly v, and isSuccess of it is true.
Thm_C1_SyncSuccess ==
    \A i \in CallIds :
        (calls[i].wrapper = "tryCatchSync" /\ calls[i].arg.does = "return")
            => /\ ReturnedPlain(calls[i])
               /\ isSuccess(calls[i].ret.value)
               /\ calls[i].ret.value.fields.data = calls[i].arg.value

Wit_C1_SyncSuccessUndefined ==
    \E i \in CallIds :
        /\ calls[i].wrapper = "tryCatchSync"
        /\ calls[i].arg.does = "return"
        /\ calls[i].arg.value = Undefined
        /\ IsSuccessOf(calls[i].ret.value, Undefined)

\* C2: when fn throws x (an Error object, a string, undefined, null),
\* tryCatchSync(fn) returns a Failure whose error is exactly x, and nothing
\* is thrown to the caller.
Thm_C2_SyncFailure ==
    \A i \in CallIds :
        (calls[i].wrapper = "tryCatchSync" /\ ThrowsValue(calls[i].arg))
            => /\ ReturnedPlain(calls[i])
               /\ isError(calls[i].ret.value)
               /\ calls[i].ret.value.fields.error = calls[i].arg.value

Wit_C2_SyncFailureErrorObject ==
    \E i \in CallIds :
        /\ calls[i].wrapper = "tryCatchSync"
        /\ ThrowsValue(calls[i].arg)
        /\ calls[i].arg.value = ErrObj
        /\ IsFailureOf(calls[i].ret.value, ErrObj)

\* C3: tryCatchAsync (any argument), and tryCatch handed a promise or a
\* function that returned a promise, return a promise that never rejects;
\* once it is settled it holds Success(v) if the underlying promise resolved
\* to v and Failure(e) if it rejected with e or if the operation threw e
\* when started; and it is settled once the underlying operation has
\* settled and the microtask queue has drained.
DeferredCall(c) ==
    \/ c.wrapper = "tryCatchAsync"
    \/ PlainTryCatch(c) /\ Deferred(c.arg)

Thm_C3_DeferredResult ==
    \A i \in CallIds :
        DeferredCall(calls[i]) =>
            /\ ReturnedPromise(calls[i])
            /\ ResultPromise(calls[i]).state # "rejected"
            /\ ResultPromise(calls[i]).state = "fulfilled" =>
                 LET r == ResultPromise(calls[i]).value IN
                 /\ (Deferred(calls[i].arg) /\ Underlying.state = "fulfilled")
                        => IsSuccessOf(r, Underlying.value)
                 /\ (Deferred(calls[i].arg) /\ Underlying.state = "rejected")
                        => IsFailureOf(r, Underlying.value)
                 /\ ThrowsValue(calls[i].arg) => IsFailureOf(r, calls[i].arg.value)
                 /\ ReturnsValue(calls[i].arg) => IsSuccessOf(r, calls[i].arg.value)
            /\ (Quiet /\ (Deferred(calls[i].arg) => Underlying.state # "pending"))
                 => ResultPromise(calls[i]).state = "fulfilled"

\* a rejection of the underlying promise, delivered as a Failure by both
Wit_C3_RejectionDelivered ==
    \E i, j \in CallIds :
        /\ calls[i].wrapper = "tryCatchAsync" /\ Deferred(calls[i].arg)
        /\ PlainTryCatch(calls[j]) /\ Deferred(calls[j].arg)
        /\ Underlying.state = "rejected"
        /\ ResultPromise(calls[i]).state = "fulfilled"
        /\ ResultPromise(calls[j]).state = "fulfilled"
        /\ IsFailureOf(ResultPromise(calls[i]).value, Underlying.value)
        /\ IsFailureOf(ResultPromise(calls[j]).value, Underlying.value)

\* C4: tryCatchAsync returns a promise, never a plain Result and never a
\* throw, whatever it is given: a settled or pending promise, a function
\* returning a promise, a function throwing at once, a function returning a
\* plain value.
Thm_C4_AsyncAlwaysPromise ==
    \A i \in CallIds :
        calls[i].wrapper = "tryCatchAsync" => ReturnedPromise(calls[i])

Wit_C4_AsyncSyncThrow ==
    \E i \in CallIds :
        /\ calls[i].wrapper = "tryCatchAsync"
        /\ ThrowsValue(calls[i].arg)
        /\ ReturnedPromise(calls[i])

\* C5: tryCatch handed a function dispatches on what the function yields.
\* If it yields a promise p, tryCatch returns a promise, and that promise and
\* the one tryCatchAsync(p) returns hold the same Result whenever both are
\* settled, and are both settled once the queue has drained after p settled.
\* If it yields a plain value v, tryCatch returns at once the plain Result
\* Success(v), the same Result tryCatchSync returns.
Thm_C5_Dispatch ==
    \A i \in CallIds :
        (PlainTryCatch(calls[i]) /\ calls[i].arg.kind = "fn") =>
            /\ Deferred(calls[i].arg) =>
                 /\ ReturnedPromise(calls[i])
                 /\ \A j \in CallIds :
                       (calls[j].wrapper = "tryCatchAsync" /\ calls[j].arg.kind = "promise") =>
                           /\ (ResultPromise(calls[i]).state # "pending"
                                 /\ ResultPromise(calls[j]).state # "pending")
                                => /\ ResultPromise(calls[i]).state = ResultPromise(calls[j]).state
                                   /\ SameResult(ResultPromise(calls[i]).value,
                                                 ResultPromise(calls[j]).value)
                           /\ (Quiet /\ Underlying.state # "pending")
                                => /\ ResultPromise(calls[i]).state = "fulfilled"
                                   /\ ResultPromise(calls[j]).state = "fulfilled"
            /\ ReturnsValue(calls[i].arg) =>
                 /\ ReturnedPlain(calls[i])
                 /\ IsSuccessOf(calls[i].ret.value, calls[i].arg.value)
                 /\ \A j \in CallIds :
                       calls[j].wrapper = "tryCatchSync"
                           => SameResult(calls[i].ret.value, calls[j].ret.value)

Wit_C5_BothDispatches ==
    \E i, j \in CallIds :
        /\ PlainTryCatch(calls[i]) /\ calls[i].arg.kind = "fn" /\ Deferred(calls[i].arg)
        /\ calls[j].wrapper = "tryCatchAsync" /\ calls[j].arg.kind = "promise"
        /\ ResultPromise(calls[i]).state = "fulfilled"
        /\ ResultPromise(calls[j]).state = "fulfilled"
        /\ SameResult(ResultPromise(calls[i]).value, ResultPromise(calls[j]).value)

\* C6: when the function handed to tryCatch throws x synchronously (and no
\* rethrow is asked for and the callbacks, if any, return normally),
\* tryCatch returns the plain Result Failure(x), not a promise, carrying
\* exactly x.
Thm_C6_SyncThrowPlainFailure ==
    \A i \in CallIds :
        (/\ calls[i].wrapper \in {"tryCatch", "tryCatchExt"}
         /\ calls[i].handler \in {"none", "callback"}
         /\ calls[i].cleanup \in {"none", "callback"}
         /\ ThrowsValue(calls[i].arg))
            => /\ ReturnedPlain(calls[i])
               /\ IsFailureOf(calls[i].ret.value, calls[i].arg.value)

Wit_C6_SyncThrowBothModules ==
    \E i, j \in CallIds :
        /\ calls[i].wrapper = "tryCatch"
        /\ calls[j].wrapper = "tryCatchExt" /\ calls[j].handler = "none" /\ calls[j].cleanup = "none"
        /\ ThrowsValue(calls[i].arg)
        /\ IsFailureOf(calls[i].ret.value, calls[i].arg.value)
        /\ IsFailureOf(calls[j].ret.value, calls[j].arg.value)

\* C7: for a promise p (resolved, rejected or pending at the call),
\* tryCatch(p) returns a promise; it and the promise tryCatchAsync(p)
\* returns hold the same Result whenever both are settled, and both are
\* settled once the queue has drained after p settled.
Thm_C7_PromiseArgument ==
    \A i \in CallIds :
        (PlainTryCatch(calls[i]) /\ calls[i].arg.kind = "promise") =>
            /\ ReturnedPromise(calls[i])
            /\ \A j \in CallIds :
                  (calls[j].wrapper = "tryCatchAsync" /\ calls[j].arg.kind = "promise") =>
                      /\ ReturnedPromise(calls[j])
                      /\ (ResultPromise(calls[i]).state # "pending"
                            /\ ResultPromise(calls[j]).state # "pending")
                           => /\ ResultPromise(calls[i]).state = ResultPromise(calls[j]).state
                              /\ SameResult(ResultPromise(calls[i]).value,
                                            ResultPromise(calls[j]).value)
                      /\ (Quiet /\ Underlying.state # "pending")
                           => /\ ResultPromise(calls[i]).state # "pending"
                              /\ ResultPromise(calls[j]).state # "pending"

\* both wrappers were handed the promise while it was pending (their
\* results took the settlement from reactions, not from the call)
Wit_C7_PendingThenSettled ==
    \E i, j \in CallIds :
        /\ PlainTryCatch(calls[i]) /\ calls[i].arg.kind = "promise"
        /\ calls[j].wrapper = "tryCatchAsync" /\ calls[j].arg.kind = "promise"
        /\ calls[i].at = "pending" /\ calls[j].at = "pending"
        /\ Underlying.state = "fulfilled"
        /\ ResultPromise(calls[i]).state = "fulfilled"
        /\ ResultPromise(calls[j]).state = "fulfilled"
        /\ IsSuccessOf(ResultPromise(calls[i]).value, Underlying.value)
        /\ SameResult(ResultPromise(calls[i]).value, ResultPromise(calls[j]).value)

\* C8 (as claimed): unless handler is 'throw', no wrapper call throws to its
\* caller and no wrapper call returns a promise that rejects, whatever the
\* handler and cleanup callbacks do.
Cex_C8_NothingEscapes ==
    \A i \in CallIds :
        calls[i].handler # "throw" =>
            /\ ~calls[i].ret.threw
            /\ IsPromise(calls[i].ret.value) => ResultPromise(calls[i]).state # "rejected"

\* the Results the library has produced so far: returned by a wrapper,
\* delivered by a wrapper's promise, or returned by success, failure, map,
\* flatMap or chain
Produced ==
    {calls[i].ret.value : i \in {k \in CallIds : ReturnedPlain(calls[k])}}
    \cup {ResultPromise(calls[i]).value :
            i \in {k \in CallIds : /\ ReturnedPromise(calls[k])
                                   /\ ResultPromise(calls[k]).state = "fulfilled"}}
    \cup {ops[k].out : k \in {n \in OpIds : /\ ops[n].op \in {"success", "failure", "map",
                                                              "flatMap", "chain"}
                                            /\ ~ops[n].threw}}

\* C9 (as claimed): every Result produced by success, failure, the wrappers,
\* map, flatMap or chain satisfies exactly one of isSuccess and isError.
Cex_C9_ExactlyOneBranch ==
    \A r \in Produced : IsObject(r) /\ (isSuccess(r) # isError(r))

\* C10: map on a Failure returns that very Failure (same object, same
\* error) without invoking fn; map on Success(v), fn returning normally,
\* invokes fn with v and returns a Success holding what fn returned.
Thm_C10_Map ==
    \A k \in OpIds :
        ops[k].op = "map" =>
            /\ isError(ops[k].input) =>
                 /\ ~ops[k].threw
                 /\ ops[k].out = ops[k].input
                 /\ ops[k].invoked = <<>>
            /\ (isSuccess(ops[k].input) /\ ~ops[k].threw) =>
                 /\ ops[k].invoked = <<Inv(1, ops[k].input.fields.data)>>
                 /\ IsSuccessOf(ops[k].out, ApplyFn(ops[k].fns[1], ops[k].input.fields.data).value)

Wit_C10_MapOnFailure ==
    \E k \in OpIds :
        /\ ops[k].op = "map"
        /\ nOps > 1
        /\ IsFailureOf(ops[k].input, ErrObj)
        /\ ops[k].out = ops[k].input

\* C11: flatMap on Success(v) invokes fn once with v and returns what fn
\* returned, with no wrapping added, be it a Success or a Failure; flatMap on
\* a Failure returns that Failure, same error, and never invokes fn.
Thm_C11_FlatMap ==
    \A k \in OpIds :
        ops[k].op = "flatMap" =>
            /\ isError(ops[k].input) =>
                 /\ ~ops[k].threw
                 /\ ops[k].out = ops[k].input
                 /\ ops[k].invoked = <<>>
            /\ isSuccess(ops[k].input) =>
                 /\ ops[k].invoked = <<Inv(1, ops[k].input.fields.data)>>
                 /\ ops[k].fns[1] = "ok" => IsSuccessOf(ops[k].out, ops[k].input.fields.data)
                 /\ ops[k].fns[1] = "fail" => IsFailureOf(ops[k].out, Prim("e"))

Wit_C11_FlatMapToFailure ==
    \E k \in OpIds :
        /\ ops[k].op = "flatMap"
        /\ IsSuccessOf(ops[k].input, Null)
        /\ ops[k].fns[1] = "fail"
        /\ IsFailureOf(ops[k].out, Prim("e"))

\* C12: unwrapOr on Success(v) returns v, also when v is null or undefined;
\* unwrapOr on a Failure returns the default.
Thm_C12_UnwrapOr ==
    \A k \in OpIds :
        ops[k].op = "unwrapOr" =>
            /\ ~ops[k].threw
            /\ isSuccess(ops[k].input) => ops[k].out = ops[k].input.fields.data
            /\ isError(ops[k].input) => ops[k].out = ops[k].extra

Wit_C12_UnwrapOrKeepsUndefined ==
    \E k \in OpIds :
        /\ ops[k].op = "unwrapOr"
        /\ IsSuccessOf(ops[k].input, Undefined)
        /\ ops[k].extra = Prim("a")
        /\ ops[k].out = Undefined

\* C13: unwrapOrElse on a Success returns the payload without invoking fn;
\* on Failure(e) it invokes fn exactly once, with e, and returns what fn
\* returned.
Thm_C13_UnwrapOrElse ==
    \A k \in OpIds :
        ops[k].op = "unwrapOrElse" =>
            /\ isSuccess(ops[k].input) =>
                 /\ ~ops[k].threw
                 /\ ops[k].out = ops[k].input.fields.data
                 /\ ops[k].invoked = <<>>
            /\ isError(ops[k].input) =>
                 /\ ops[k].invoked = <<Inv(1, ops[k].input.fields.error)>>
                 /\ ~ops[k].threw =>
                      ops[k].out = ApplyFn(ops[k].fns[1], ops[k].input.fields.error).value

Wit_C13_UnwrapOrElseComputes ==
    \E k \in OpIds :
        /\ ops[k].op = "unwrapOrElse"
        /\ IsFailureOf(ops[k].input, ErrObj)
        /\ ops[k].fns[1] = "identity"
        /\ ops[k].out = ErrObj

\* C14: match invokes exactly one of its two handlers, exactly once: the
\* success handler with the payload on a Success, the failure handler with
\* the error on a Failure; it returns what that handler returned.
Thm_C14_Match ==
    \A k \in OpIds :
        ops[k].op = "match" =>
            /\ Len(ops[k].invoked) = 1
            /\ isSuccess(ops[k].input) =>
                 /\ ops[k].invoked[1] = Inv(1, ops[k].input.fields.data)
                 /\ ~ops[k].threw =>
                      ops[k].out = ApplyFn(ops[k].fns[1], ops[k].input.fields.data).value
            /\ isError(ops[k].input) =>
                 /\ ops[k].invoked[1] = Inv(2, ops[k].input.fields.error)
                 /\ ~ops[k].threw =>
                      ops[k].out = ApplyFn(ops[k].fns[2], ops[k].input.fields.error).value

Wit_C14_MatchFailureHandler ==
    \E k \in OpIds :
        /\ ops[k].op = "match"
        /\ IsFailureOf(ops[k].input, Prim("a"))
        /\ ops[k].fns = <<"toNull", "identity">>
        /\ ops[k].out = Prim("a")

\* C15 (as claimed): in the extended tryCatch a supplied cleanup runs exactly
\* once in every outcome (success, failure turned into a Failure, rethrow),
\* on the synchronous path and on the promise paths; stated here for
\* callbacks that return normally.
Cex_C15_CleanupExactlyOnce ==
    \A i \in CallIds :
        (/\ calls[i].wrapper = "tryCatchExt"
         /\ calls[i].cleanup = "callback"
         /\ calls[i].handler \in {"none", "throw", "callback"}
         /\ Completed(calls[i]))
            => Invocations(calls[i], "cleanup") = <<CleanupEv>>

\* C16: with handler 'throw' (cleanup absent or returning normally) a
\* failing operation never yields a Failure: a synchronous throw of x reaches
\* the caller as x, a rejection with x rejects the returned promise with x;
\* a succeeding operation yields Success, plain or in the returned promise.
Thm_C16_Rethrow ==
    \A i \in CallIds :
        (/\ calls[i].wrapper = "tryCatchExt"
         /\ calls[i].handler = "throw"
         /\ calls[i].cleanup \in {"none", "callback"})
            => /\ ThrowsValue(calls[i].arg) =>
                    /\ calls[i].ret.threw
                    /\ calls[i].ret.value = calls[i].arg.value
               /\ ReturnsValue(calls[i].arg) =>
                    /\ ReturnedPlain(calls[i])
                    /\ IsSuccessOf(calls[i].ret.value, calls[i].arg.value)
               /\ Deferred(calls[i].arg) =>
                    /\ ReturnedPromise(calls[i])
                    /\ ResultPromise(calls[i]).state = "rejected" =>
                         /\ Underlying.state = "rejected"
                         /\ ResultPromise(calls[i]).value = Underlying.value
                    /\ ResultPromise(calls[i]).state = "fulfilled" =>
                         /\ Underlying.state = "fulfilled"
                         /\ IsSuccessOf(ResultPromise(calls[i]).value, Underlying.value)
                    /\ (Quiet /\ Underlying.state # "pending") =>
                         ResultPromise(calls[i]).state = Underlying.state

Wit_C16_RejectionRethrown ==
    \E i \in CallIds :
        /\ calls[i].wrapper = "tryCatchExt"
        /\ calls[i].handler = "throw"
        /\ calls[i].cleanup = "callback"
        /\ Deferred(calls[i].arg)
        /\ calls[i].at = "pending"
        /\ ResultPromise(calls[i]).state = "rejected"
        /\ ResultPromise(calls[i]).value = ErrObj

\* C17 (as claimed): with handler 'throw' and a cleanup callback, when the
\* operation fails the cleanup has run by the time the rethrown error
\* reaches the caller, for a synchronous throw and for a rejection alike.
Cex_C17_CleanupBeforeRethrow ==
    \A i \in CallIds :
        (/\ calls[i].wrapper = "tryCatchExt"
         /\ calls[i].handler = "throw"
         /\ calls[i].cleanup = "callback"
         /\ ErrorReachedCaller(calls[i]))
            => Invocations(calls[i], "cleanup") # <<>>

\* C18 (as claimed): with a handler callback, when the operation fails with
\* x the callback has been invoked exactly once, with x, by the time the
\* Failure is produced, and the Result is Failure(x) (cleanup absent or
\* returning normally); when the operation succeeds the callback is never
\* invoked (whatever the cleanup).
Cex_C18_HandlerCallback ==
    \A i \in CallIds :
        (calls[i].wrapper = "tryCatchExt" /\ calls[i].handler = "callback")
            => /\ ReturnsValue(calls[i].arg) => Invocations(calls[i], "handler") = <<>>
               /\ (Deferred(calls[i].arg) /\ Underlying.state # "rejected") =>
                    Invocations(calls[i], "handler") = <<>>
               /\ (ThrowsValue(calls[i].arg) /\ calls[i].cleanup # "throwingCallback") =>
                    /\ Invocations(calls[i], "handler") = <<HandlerEv(calls[i].arg.value)>>
                    /\ ReturnedPlain(calls[i])
                    /\ IsFailureOf(calls[i].ret.value, calls[i].arg.value)
               /\ (/\ Deferred(calls[i].arg)
                   /\ calls[i].cleanup # "throwingCallback"
                   /\ Underlying.state = "rejected"
                   /\ ResultPromise(calls[i]).state # "pending") =>
                    /\ Invocations(calls[i], "handler") = <<HandlerEv(Underlying.value)>>
                    /\ ResultPromise(calls[i]).state = "fulfilled"
                    /\ IsFailureOf(ResultPromise(calls[i]).value, Underlying.value)

\* C19: chain stops at the first Failure: when the input is a Failure it is
\* returned itself and no operation is invoked; when operation j is the
\* first to return a Failure, that Failure object is what chain returns and
\* operations j+1.. are never invoked.
Thm_C19_ChainShortCircuit ==
    \A k \in OpIds :
        ops[k].op = "chain" =>
            /\ HasKey(ops[k].input, "error") =>
                 /\ ~ops[k].threw
                 /\ ops[k].out = ops[k].input
                 /\ ops[k].invoked = <<>>
            /\ ~HasKey(ops[k].input, "error") =>
                 \A j \in 1..Len(ops[k].fns) :
                     (ops[k].fns[j] = "fail" /\ \A i \in 1..(j - 1) : ops[k].fns[i] = "ok") =>
                         /\ ~ops[k].threw
                         /\ IsFailureOf(ops[k].out, Prim("e"))
                         /\ ops[k].out.id = (nextId - (MaxChain + 2)) + j
                         /\ Len(ops[k].invoked) = j
                         /\ \A i \in 1..j : ops[k].invoked[i].k = i

Wit_C19_SecondOperationSkipped ==
    \E k \in OpIds :
        /\ ops[k].op = "chain"
        /\ IsSuccessOf(ops[k].input, Prim("a"))
        /\ ops[k].fns = <<"fail", "ok">>
        /\ ops[k].invoked = <<Inv(1, Prim("a"))>>
        /\ IsFailureOf(ops[k].out, Prim("e"))

\* C20 (as claimed): chain wraps every input that is not a Result: the first
\* operation receives the input itself, and with no operations chain returns
\* a Success holding the input; raw objects owning a 'data' or an 'error'
\* key included.
Cex_C20_RawInputWrapped ==
    \A k \in OpIds :
        (ops[k].op = "chain" /\ ~WellFormed(ops[k].input)) =>
            /\ ops[k].fns = <<>> => IsSuccessOf(ops[k].out, ops[k].input)
            /\ ops[k].fns # <<>> =>
                 /\ ops[k].invoked # <<>>
                 /\ ops[k].invoked[1] = Inv(1, ops[k].input)

\* the value of result.ok: undefined when the object owns no such key
OkOf(r) == IF HasKey(r, "ok") THEN r.fields.ok ELSE Undefined

\* C21 (as claimed): every Result carries a boolean ok: true on what success
\* built and on the wrappers' Successes, false on what failure built and on
\* the wrappers' Failures, plain or delivered through a promise.
Cex_C21_OkDiscriminant ==
    \A r \in Produced :
        /\ (IsObject(r) /\ isSuccess(r) /\ ~isError(r)) => OkOf(r) = Prim("true")
        /\ (IsObject(r) /\ isError(r) /\ ~isSuccess(r)) => OkOf(r) = Prim("false")

\* C22: the constructors wrap any value as it is: success(v) satisfies
\* isSuccess, not isError, and its data is v, null and undefined included;
\* failure(e) satisfies isError, not isSuccess, and its error is e.
Thm_C22_ConstructorsRoundTrip ==
    \A k \in OpIds :
        /\ ops[k].op = "success" =>
             /\ ~ops[k].threw
             /\ isSuccess(ops[k].out)
             /\ ~isError(ops[k].out)
             /\ ops[k].out.fields.data = ops[k].extra
        /\ ops[k].op = "failure" =>
             /\ ~ops[k].threw
             /\ isError(ops[k].out)
             /\ ~isSuccess(ops[k].out)
             /\ ops[k].out.fields.error = ops[k].extra

Wit_C22_UndefinedIsSuccess ==
    \E k \in OpIds :
        /\ ops[k].op = "success"
        /\ ops[k].extra = Undefined
        /\ isSuccess(ops[k].out)
        /\ ops[k].out.fields.data = Undefined

\* call i has a reaction waiting on some promise, or a job in the queue
Waiting(i) ==
    \/ \E p \in 1..Len(reactions) : \E q \in 1..Len(reactions[p]) : reactions[p][q].call = i
    \/ \E j \in 1..Len(microtasks) : microtasks[j].r.call = i

\* C23: tryCatchSync returns a plain Result at once: when fn returns a
\* promise the Result is a Success whose data is that very promise, nothing
\* waits on the promise, and the Result stays that Success whatever the
\* promise does later, a rejection included.
Thm_C23_SyncNeverAwaits ==
    \A i \in CallIds :
        (calls[i].wrapper = "tryCatchSync" /\ Deferred(calls[i].arg))
            => /\ ReturnedPlain(calls[i])
               /\ IsSuccessOf(calls[i].ret.value, calls[i].arg.value)
               /\ ~Waiting(i)

Wit_C23_RejectedAfterReturn ==
    \E i \in CallIds :
        /\ calls[i].wrapper = "tryCatchSync"
        /\ calls[i].at = "pending"
        /\ Underlying.state = "rejected"
        /\ IsSuccessOf(calls[i].ret.value, PromiseRef(1))

\* call i wraps the deferred operation with tryCatch or tryCatchAsync
WrapsDeferred(i) ==
    /\ i \in CallIds
    /\ calls[i].wrapper \in {"tryCatch", "tryCatchAsync", "tryCatchExt"}
    /\ Deferred(calls[i].arg)

ResultAvailable(i) == promises[calls[i].ret.value.pid].state # "pending"

\* C24: the promise of the Result of a deferred operation is never settled
\* while the operation is pending, is still pending right after the step
\* that settles the operation, and is eventually settled once the operation
\* has settled.
Thm_C24_ResultAfterUnderlying ==
    /\ [](\A i \in 1..MaxCalls :
            WrapsDeferred(i) => /\ ReturnedPromise(calls[i])
                                /\ ResultAvailable(i) => Underlying.state # "pending")
    /\ [][\A i \in 1..MaxCalls :
            (WrapsDeferred(i) /\ Underlying.state = "pending") => ~ResultAvailable(i)']_vars
    /\ \A i \in 1..MaxCalls :
            (WrapsDeferred(i) /\ Underlying.state # "pending") ~> (WrapsDeferred(i) /\ ResultAvailable(i))

Wit_C24_SettledThenDelivered ==
    \E i \in CallIds :
        /\ WrapsDeferred(i)
        /\ calls[i].wrapper = "tryCatchAsync"
        /\ calls[i].at = "pending"
        /\ Underlying.state = "rejected"
        /\ ResultAvailable(i)

\* C25: map does not catch: when result is a Success and fn throws x, map
\* returns nothing and x itself reaches the caller of map.
Thm_C25_MapPropagatesThrow ==
    \A k \in OpIds :
        (ops[k].op = "map" /\ isSuccess(ops[k].input) /\ ops[k].fns[1] = "throws")
            => /\ ops[k].threw
               /\ ops[k].out = CallbackThrown
               /\ ops[k].invoked = <<Inv(1, ops[k].input.fields.data)>>

Wit_C25_MapFnThrew ==
    \E k \in OpIds :
        /\ ops[k].op = "map"
        /\ IsSuccessOf(ops[k].input, Prim("a"))
        /\ ops[k].fns = <<"throws">>
        /\ ops[k].threw

\* the combinators that take a Result
Combinators == {"map", "flatMap", "unwrapOr", "unwrapOrElse", "match", "chain"}

\* C26: no combinator changes the Result it is given: an object of the
\* input's identity, wherever it shows up after the operation (as what the
\* operation returned, as the value the next operation gets), has the keys
\* and values the input had.
Thm_C26_NoMutation ==
    \A k \in OpIds :
        (ops[k].op \in Combinators /\ IsObject(ops[k].input))
            => /\ (IsObject(ops[k].out) /\ ops[k].out.id = ops[k].input.id) =>
                    ops[k].out.fields = ops[k].input.fields
               /\ (IsObject(cur) /\ cur.id = ops[k].input.id) =>
                    cur.fields = ops[k].input.fields

Wit_C26_InputKeptAfterMap ==
    \E k \in OpIds :
        /\ ops[k].op = "map"
        /\ ops[k].fns = <<"toNull">>
        /\ IsSuccessOf(ops[k].input, Prim("a"))
        /\ IsSuccessOf(ops[k].out, Null)
        /\ ops[k].out.id # ops[k].input.id

\* C27: a wrapper handed a function has invoked it exactly once, with no
\* arguments, on every path and at every later moment (after a synchronous
\* throw, after the returned promise resolved or rejected); handed a promise
\* it has invoked nothing.
Thm_C27_InvokedOnce ==
    \A i \in CallIds :
        /\ calls[i].arg.kind = "fn" => Invocations(calls[i], "fn") = <<Ev("fn", <<>>)>>
        /\ calls[i].arg.kind = "promise" => Invocations(calls[i], "fn") = <<>>

Wit_C27_FunctionAndPromise ==
    \E i, j \in CallIds :
        /\ calls[i].wrapper = "tryCatch" /\ calls[i].arg.kind = "fn"
        /\ calls[j].wrapper = "tryCatchExt" /\ calls[j].arg.kind = "promise"
        /\ Underlying.state = "rejected"
        /\ Completed(calls[i]) /\ Completed(calls[j])
        /\ Invocations(calls[i], "fn") = <<FnEv>>
        /\ Invocations(calls[j], "fn") = <<>>

\* calls i and j hand the same argument to the basic tryCatch and to the
\* extended tryCatch without handler and cleanup
BasicAndExtended(i, j) ==
    /\ calls[i].wrapper = "tryCatch"
    /\ calls[j].wrapper = "tryCatchExt"
    /\ calls[j].handler = "none" /\ calls[j].cleanup = "none"
    /\ calls[i].arg = calls[j].arg

\* C28: the extended tryCatch called with the argument alone behaves as the
\* basic tryCatch on the same argument: both return a plain Result or both a
\* promise; the plain Results have the same key and payload; the promises
\* hold the same Result whenever both are settled, and are both settled or
\* both pending once the queue has drained.
Thm_C28_ExtendedIsBasic ==
    \A i, j \in CallIds :
        BasicAndExtended(i, j)
            => /\ ~calls[i].ret.threw /\ ~calls[j].ret.threw
               /\ ReturnedPlain(calls[i]) <=> ReturnedPlain(calls[j])
               /\ ReturnedPromise(calls[i]) <=> ReturnedPromise(calls[j])
               /\ ReturnedPlain(calls[i]) => SameResult(calls[i].ret.value, calls[j].ret.value)
               /\ ReturnedPromise(calls[i]) =>
                    /\ (/\ ResultPromise(calls[i]).state # "pending"
                        /\ ResultPromise(calls[j]).state # "pending") =>
                           /\ ResultPromise(calls[i]).state = "fulfilled"
                           /\ ResultPromise(calls[j]).state = "fulfilled"
                           /\ SameResult(ResultPromise(calls[i]).value,
                                         ResultPromise(calls[j]).value)
                    /\ Quiet => ResultPromise(calls[i]).state = ResultPromise(calls[j]).state

Wit_C28_SameFailureThroughPromise ==
    \E i, j \in CallIds :
        /\ BasicAndExtended(i, j)
        /\ calls[i].arg.kind = "promise"
        /\ ResultPromise(calls[i]).state = "fulfilled"
        /\ ResultPromise(calls[j]).state = "fulfilled"
        /\ IsFailureOf(ResultPromise(calls[i]).value, ErrObj)
        /\ IsFailureOf(ResultPromise(calls[j]).value, ErrObj)

\* the operation of the call has failed, and with what
Failed(c) ==
    \/ ThrowsValue(c.arg)
    \/ Deferred(c.arg) /\ Underlying.state = "rejected"

FailedWith(c) == IF ThrowsValue(c.arg) THEN c.arg.value ELSE Underlying.value

\* the handler and cleanup calls of a call, in order
Callbacks(c) == SelectSeq(c.log, LAMBDA x : x.e \in {"handler", "cleanup"})

\* C29: in the extended tryCatch with a handler callback and a cleanup
\* callback, when the operation fails no cleanup call comes before the
\* handler call, on the synchronous path and on both promise paths; once the
\* call is over (callbacks returning normally) the callbacks ran as handler(x)
\* then cleanup().
Thm_C29_HandlerBeforeCleanup ==
    \A i \in CallIds :
        (/\ calls[i].wrapper = "tryCatchExt"
         /\ calls[i].handler \in {"callback", "throwingCallback"}
         /\ calls[i].cleanup \in {"callback", "throwingCallback"}
         /\ Failed(calls[i]))
            => /\ Callbacks(calls[i]) # <<>> => Callbacks(calls[i])[1].e = "handler"
               /\ (/\ calls[i].handler = "callback"
                   /\ calls[i].cleanup = "callback"
                   /\ Completed(calls[i])) =>
                      Callbacks(calls[i]) = <<HandlerEv(FailedWith(calls[i])), CleanupEv>>

Wit_C29_RejectionHandledThenCleaned ==
    \E i \in CallIds :
        /\ calls[i].wrapper = "tryCatchExt"
        /\ calls[i].arg.kind = "promise"
        /\ calls[i].handler = "callback"
        /\ calls[i].cleanup = "callback"
        /\ Underlying.state = "rejected"
        /\ calls[i].log = <<HandlerEv(ErrObj), CleanupEv>>

\* flatMap(...flatMap(flatMap(r, op1), op2)..., opN), the k-th operation
\* building its Result as object id + k
RECURSIVE FoldFlatMap(_, _, _, _, _)
FoldFlatMap(current, operations, k, id, invoked) ==
    IF k > Len(operations) THEN Done(FALSE, current, invoked)
    ELSE LET d == flatMap(current, operations[k], id + k)
             seen == invoked \o [n \in 1..Len(d.invoked) |-> Inv(k, d.invoked[n].arg)]
         IN  IF d.threw THEN Done(TRUE, d.value, seen)
             ELSE FoldFlatMap(d.value, operations, k + 1, id, seen)

\* C30: for a well-formed Result r and operations returning well-formed
\* Results, chain(r, op1, ..., opN) returns what the left fold of flatMap
\* over op1..opN returns from r, having invoked the same operations with the
\* same payloads in the same order.
Thm_C30_ChainIsFoldOfFlatMap ==
    \A k \in OpIds :
        (/\ ops[k].op = "chain"
         /\ WellFormed(ops[k].input)
         /\ \A n \in 1..Len(ops[k].fns) : ops[k].fns[n] \in {"ok", "fail"})
            => LET fold == FoldFlatMap(ops[k].input, ops[k].fns, 1,
                                       nextId - (MaxChain + 2), <<>>)
               IN  /\ ops[k].threw = fold.threw
                   /\ ops[k].out = fold.value
                   /\ ops[k].invoked = fold.invoked

Wit_C30_TwoOperations ==
    \E k \in OpIds :
        /\ ops[k].op = "chain"
        /\ IsSuccessOf(ops[k].input, Null)
        /\ ops[k].fns = <<"ok", "fail">>
        /\ ops[k].invoked = <<Inv(1, Null), Inv(2, Null)>>
        /\ IsFailureOf(ops[k].out, Prim("e"))

====
